---- MODULE Spec2Model ----
(***************************************************************************)
(* Model of logger/analytics/analyticslogger.go: the Logger that batches   *)
(* records under a mutex (Write, Close) and the sendBatch goroutines that  *)
(* deliver each detached batch to Firehose with retries.                   *)
(*                                                                         *)
(* Records are identified by the order in which Write appends them (the    *)
(* code identifies them by pointer).  Time is a logical clock counted in   *)
(* units of timeoutForSendingBatches.                                      *)
(*                                                                         *)
(* Spec is the whole program.  Its state space is the product of the       *)
(* callers' interleavings and of every delivery's retry state, so the      *)
(* properties are checked on parts of it:                                  *)
(*   SpecNew     New alone, on any Config;                                 *)
(*   SpecLogger  concurrent Write and Close, deliveries started, not run;  *)
(*   SpecSend    one sendBatch call on a detached batch, with the clock;   *)
(*   SpecSystem  Write, Close and the deliveries together, few calls;      *)
(* and, for what must eventually happen, on SpecLoggerFair and             *)
(* SpecSendFair, which add the scheduling to SpecLogger and SpecSend.      *)
(***************************************************************************)
EXTENDS Integers, Sequences, FiniteSets, TLC

\* ---------------------------------------------------------------- bounds
\* Write calls made on the Logger when only the Logger is explored.
MaxWrites == 3
\* Write calls made when the Logger and its deliveries are explored together.
SysWrites == 2
\* Largest batch handed to sendBatch when one delivery is explored alone.
MaxBatch == 3
\* The logical clock stops advancing here.
MaxTime == 1

\* The goroutines calling Write and Close on the one Logger; each calls Close
\* at most once.
Callers == {"p1", "p2"}
\* len(bs) of the encoded payloads (with the trailing newline).
RecordSizes == {9, 10}
\* Values of Config.FirehosePutRecordBatchMaxRecords / MaxBytes (0: unset).
ConfigMaxRecords == {0, 2}
ConfigMaxBytes == {0, 20}

\* ------------------------------------------------------ program constants
firehosePutRecordBatchMaxRecords == 500
firehosePutRecordBatchMaxBytes == 4000000
\* time.Minute, in clock units.
timeoutForSendingBatches == 1

VARIABLES
    maxBatchRecords,  \* al.maxBatchRecords
    maxBatchBytes,    \* al.maxBatchBytes
    batch,            \* al.batch: the pending records, by id
    batchBytes,       \* al.batchBytes
    mu,               \* al.mu: the caller holding it, or NoHolder
    records,          \* records[id]: len(Data) of the id-th record created
    pc,               \* pc[p]: where caller p is in Write or Close
    bs,               \* bs[p]: len(bs) of the payload caller p is writing
    rec,              \* rec[p]: the record caller p appended in this Write
    nWrites,          \* Write calls started
    closed,           \* the callers that have called Close
    tasks,            \* the sendBatch goroutines, in the order started
    accepted,         \* accepted[id]: times the endpoint reported id accepted
    now,              \* time.Now()
    c,                \* the Config given to New
    newErr            \* the error New returned, or NotCalled

vars == <<maxBatchRecords, maxBatchBytes, batch, batchBytes, mu, records, pc,
          bs, rec, nWrites, closed, tasks, accepted, now, c, newErr>>

loggerVars == <<maxBatchRecords, maxBatchBytes, batch, batchBytes, mu, records,
                pc, bs, rec, nWrites, closed, c, newErr>>

NoHolder == "none"
NoRecord == 0

\* ---------------------------------------------------------------- helpers
min(a, b) == IF a < b THEN a ELSE b

\* int(0.9*float64(n)): the product truncated toward zero.
ByteThreshold(n) == IF n >= 0 THEN (9 * n) \div 10 ELSE -((9 * (-n)) \div 10)

RECURSIVE SumBytes(_)
SumBytes(b) == IF b = <<>> THEN 0 ELSE records[Head(b)] + SumBytes(Tail(b))

Range(s) == {s[i] : i \in DOMAIN s}

\* ------------------------------------------------------------------- New
\* Mutant of NewMaxBatchRecords: a configured value is taken as it is.
NewMaxBatchRecordsUnclamped(v) ==
    IF v # 0 THEN v ELSE firehosePutRecordBatchMaxRecords

NewMaxBatchRecords(v) ==
    IF v # 0 THEN min(v, firehosePutRecordBatchMaxRecords)
    ELSE firehosePutRecordBatchMaxRecords

NewMaxBatchBytes(v) ==
    IF v # 0 THEN min(v, firehosePutRecordBatchMaxBytes)
    ELSE firehosePutRecordBatchMaxBytes

\* The errors New returns (nil: ErrNil, defined with the endpoint's errors).
ErrBothNames == "cannot specify both DBName and StreamName in logger config"
ErrNoName == "must specify either DBName or StreamName in logger config"
ErrNoEnv == "env could not be set (either pass in explicit env, or set _DEPLOY_ENV)"
ErrNoAPI == "must provide FirehoseAPI or Region"
\* New has not been called.
NotCalled == "not called"

\* The error New returns for Config cfg when os.Getenv("_DEPLOY_ENV") is env,
\* "nil" for none (the value of ErrNil).
NewError(cfg, env) ==
    IF cfg.DBName # "" /\ cfg.StreamName # "" THEN ErrBothNames
    ELSE IF cfg.DBName = "" /\ cfg.StreamName = "" THEN ErrNoName
    ELSE IF cfg.Environment = "" /\ env = "" THEN ErrNoEnv
    ELSE IF ~cfg.FirehoseAPI /\ cfg.Region = "" THEN ErrNoAPI
    ELSE "nil"

\* New(c): lines 92-101 are reached unless one of the first three errors is
\* returned before them.
New(env) ==
    /\ newErr = NotCalled
    /\ newErr' = NewError(c, env)
    /\ IF NewError(c, env) \in {ErrBothNames, ErrNoName, ErrNoEnv}
       THEN UNCHANGED <<maxBatchRecords, maxBatchBytes>>
       ELSE /\ maxBatchRecords' =
                  NewMaxBatchRecords(c.FirehosePutRecordBatchMaxRecords)
            /\ maxBatchBytes' =
                  NewMaxBatchBytes(c.FirehosePutRecordBatchMaxBytes)
    /\ UNCHANGED <<batch, batchBytes, mu, records, pc, bs, rec, nWrites,
                   closed, tasks, accepted, now, c>>

\* A Config New accepts, with the two limits as given.
Config(maxRecords, maxBytes) ==
    [DBName |-> "db", Environment |-> "env", StreamName |-> "", Region |-> "",
     FirehosePutRecordBatchMaxRecords |-> maxRecords,
     FirehosePutRecordBatchMaxBytes |-> maxBytes,
     FirehoseAPI |-> TRUE]

\* The Logger New(c) returned, for the Configs of the bounds.
Init ==
    /\ c \in {Config(v, w) : v \in ConfigMaxRecords, w \in ConfigMaxBytes}
    /\ newErr = NewError(c, "")
    /\ maxBatchRecords = NewMaxBatchRecords(c.FirehosePutRecordBatchMaxRecords)
    /\ maxBatchBytes = NewMaxBatchBytes(c.FirehosePutRecordBatchMaxBytes)
    /\ batch = <<>>
    /\ batchBytes = 0
    /\ mu = NoHolder
    /\ records = <<>>
    /\ pc = [p \in Callers |-> "idle"]
    /\ bs = [p \in Callers |-> 0]
    /\ rec = [p \in Callers |-> NoRecord]
    /\ nWrites = 0
    /\ closed = {}
    /\ tasks = <<>>
    /\ accepted = <<>>
    /\ now = 0

\* ------------------------------------------------------------- the endpoint
\* What one PutRecordBatch call returns: err, and with a nil err the output's
\* FailedPutCount and, per RequestResponses entry, whether ErrorCode is set.
ErrNil == "nil"
ErrRequest == "awserr:RequestError"
ErrService == "awserr:ServiceUnavailableException"
ErrPlain == "error"
Errors == {ErrRequest, ErrService, ErrPlain}

BoolSeqs(n) == UNION {[1..k -> BOOLEAN] : k \in 0..n}

\* The endpoint answers as it likes: an error, or an output whose result list
\* is no longer than the request and whose count is any number up to its size.
Outputs(b) ==
    {[err |-> e, failed |-> 0, codes |-> <<>>] : e \in Errors}
    \cup {[err |-> ErrNil, failed |-> f, codes |-> cs] :
             f \in 0..Len(b), cs \in BoolSeqs(Len(b))}

\* The records of request b that output codes reports rejected / accepted.
RejectedIn(b, codes) ==
    SelectSeq(b, LAMBDA r :
        \E i \in DOMAIN codes : i \in DOMAIN b /\ b[i] = r /\ codes[i])
AcceptedIn(b, codes) ==
    {b[i] : i \in {j \in DOMAIN codes \cap DOMAIN b : ~codes[j]}}

\* The last output that asked for a retry of some records: none yet, or those.
NoWant == [set |-> FALSE, recs |-> <<>>]

\* ----------------------------------------------------------- sendBatch go
\* A sendBatch goroutine: its arguments and locals (batch, timeout, the
\* retrier's retries, pc) and, as history, the batch as detached (orig), who
\* detached it (by), the calls and sleeps of the current r.Run (calls, slept),
\* the error of the last call (err) and the records its last answer with a
\* FailedPutCount wanted again (want).
\* go sendBatch(batch, al.fhAPI, al.fhStream, time.Now().Add(timeoutForSendingBatches))
NewTask(b, who) ==
    [orig |-> b, by |-> who, batch |-> b,
     timeout |-> now + timeoutForSendingBatches,
     pc |-> "loop", retries |-> 0, calls |-> 0, slept |-> <<>>,
     err |-> ErrNil, want |-> NoWant]

\* ------------------------------------------------------------------ Write
\* Write up to the lock: the payload is decoded, re-encoded, '\n' appended.
WriteBegin(p, n) ==
    /\ pc[p] = "idle"
    /\ nWrites < MaxWrites
    /\ nWrites' = nWrites + 1
    /\ bs' = [bs EXCEPT ![p] = n]
    /\ pc' = [pc EXCEPT ![p] = "w_lock"]
    /\ UNCHANGED <<maxBatchRecords, maxBatchBytes, batch, batchBytes, mu,
                   records, rec, closed, tasks, accepted, now,
                   c, newErr>>

\* Mutant of WriteEncodeError: the payload is counted before it is decoded.
WriteEncodeErrorCounted(p) ==
    /\ pc[p] = "idle"
    /\ nWrites < MaxWrites
    /\ nWrites' = nWrites + 1
    /\ batchBytes' = batchBytes + 1
    /\ pc' = [pc EXCEPT ![p] = "w_err"]
    /\ UNCHANGED <<maxBatchRecords, maxBatchBytes, batch, mu,
                   records, bs, rec, closed, tasks, accepted, now,
                   c, newErr>>

\* Write with a payload json.Unmarshal rejects, or whose map json.Marshal
\* rejects: the call goes to return 0, err (line 119 or 127).
WriteEncodeError(p) ==
    /\ pc[p] = "idle"
    /\ nWrites < MaxWrites
    /\ nWrites' = nWrites + 1
    /\ pc' = [pc EXCEPT ![p] = "w_err"]
    /\ UNCHANGED <<maxBatchRecords, maxBatchBytes, batch, batchBytes, mu,
                   records, bs, rec, closed, tasks, accepted, now,
                   c, newErr>>

\* The err of json.Unmarshal or json.Marshal.
ErrEncode == "encode error"

\* What the Write of caller p returns from where it is: 0, err at lines 119
\* and 127, len(bs), nil at line 142.
WriteReturns(p) ==
    IF pc[p] = "w_err" THEN [n |-> 0, err |-> ErrEncode]
    ELSE [n |-> bs[p], err |-> ErrNil]

\* return 0, err
WriteReturnError(p) ==
    /\ pc[p] = "w_err"
    /\ pc' = [pc EXCEPT ![p] = "idle"]
    /\ UNCHANGED <<maxBatchRecords, maxBatchBytes, batch, batchBytes, mu,
                   records, bs, rec, nWrites, closed, tasks, accepted, now,
                   c, newErr>>

\* al.mu.Lock()
WriteLock(p) ==
    /\ pc[p] = "w_lock"
    /\ mu = NoHolder
    /\ mu' = p
    /\ pc' = [pc EXCEPT ![p] = "w_bytes"]
    /\ UNCHANGED <<maxBatchRecords, maxBatchBytes, batch, batchBytes, records,
                   bs, rec, nWrites, closed, tasks, accepted, now,
                   c, newErr>>

\* al.batchBytes += len(bs)
WriteBytes(p) ==
    /\ pc[p] = "w_bytes"
    /\ batchBytes' = batchBytes + bs[p]
    /\ pc' = [pc EXCEPT ![p] = "w_append"]
    /\ UNCHANGED <<maxBatchRecords, maxBatchBytes, batch, mu, records, bs, rec,
                   nWrites, closed, tasks, accepted, now,
                   c, newErr>>

\* Mutant of WriteAppend: the batch last handed to sendBatch still shares
\* al.batch's array, so the append shows in that delivery.
WriteAppendShared(p) ==
    /\ pc[p] = "w_append"
    /\ records' = Append(records, bs[p])
    /\ accepted' = Append(accepted, 0)
    /\ rec' = [rec EXCEPT ![p] = Len(records) + 1]
    /\ batch' = Append(batch, Len(records) + 1)
    /\ tasks' = [t \in DOMAIN tasks |->
                   IF t = Len(tasks)
                   THEN [tasks[t] EXCEPT !.batch = Append(@, Len(records) + 1)]
                   ELSE tasks[t]]
    /\ pc' = [pc EXCEPT ![p] = "w_send"]
    /\ UNCHANGED <<maxBatchRecords, maxBatchBytes, batchBytes, mu, bs, nWrites,
                   closed, now, c, newErr>>

\* al.batch = append(al.batch, &firehose.Record{Data: bs})
WriteAppend(p) ==
    /\ pc[p] = "w_append"
    /\ records' = Append(records, bs[p])
    /\ accepted' = Append(accepted, 0)
    /\ rec' = [rec EXCEPT ![p] = Len(records) + 1]
    /\ batch' = Append(batch, Len(records) + 1)
    /\ pc' = [pc EXCEPT ![p] = "w_send"]
    /\ UNCHANGED <<maxBatchRecords, maxBatchBytes, batchBytes, mu, bs, nWrites,
                   closed, tasks, now,
                   c, newErr>>

\* Mutants of shouldSendBatch: the count compared one record early; the count
\* compared with > ; the bytes compared with >= .
shouldSendBatchEarly ==
    \/ Len(batch) + 1 = maxBatchRecords
    \/ batchBytes > ByteThreshold(maxBatchBytes)
shouldSendBatchOver ==
    \/ Len(batch) > maxBatchRecords
    \/ batchBytes > ByteThreshold(maxBatchBytes)
shouldSendBatchAtThreshold ==
    \/ Len(batch) = maxBatchRecords
    \/ batchBytes >= ByteThreshold(maxBatchBytes)

shouldSendBatch ==
    \/ Len(batch) = maxBatchRecords
    \/ batchBytes > ByteThreshold(maxBatchBytes)

\* Mutant of WriteSend: al.batch is sent and not replaced by an empty one.
WriteSendKeepsBatch(p) ==
    /\ pc[p] = "w_send"
    /\ IF shouldSendBatch
       THEN /\ batch' = batch
            /\ batchBytes' = 0
            /\ tasks' = Append(tasks, NewTask(batch, "Write"))
       ELSE UNCHANGED <<batch, batchBytes, tasks>>
    /\ pc' = [pc EXCEPT ![p] = "w_unlock"]
    /\ UNCHANGED <<maxBatchRecords, maxBatchBytes, mu, records, bs, rec,
                   nWrites, closed, accepted, now,
                   c, newErr>>

\* if shouldSendBatch { batch := al.batch; al.batch = {}; al.batchBytes = 0; go sendBatch(batch, ...) }
WriteSend(p) ==
    /\ pc[p] = "w_send"
    /\ IF shouldSendBatch
       THEN /\ batch' = <<>>
            /\ batchBytes' = 0
            /\ tasks' = Append(tasks, NewTask(batch, "Write"))
       ELSE UNCHANGED <<batch, batchBytes, tasks>>
    /\ pc' = [pc EXCEPT ![p] = "w_unlock"]
    /\ UNCHANGED <<maxBatchRecords, maxBatchBytes, mu, records, bs, rec,
                   nWrites, closed, accepted, now,
                   c, newErr>>

\* al.mu.Unlock(); return len(bs), nil
WriteUnlock(p) ==
    /\ pc[p] = "w_unlock"
    /\ mu' = NoHolder
    /\ pc' = [pc EXCEPT ![p] = "idle"]
    /\ bs' = [bs EXCEPT ![p] = 0]
    /\ rec' = [rec EXCEPT ![p] = NoRecord]
    /\ UNCHANGED <<maxBatchRecords, maxBatchBytes, batch, batchBytes, records,
                   nWrites, closed, tasks, accepted, now,
                   c, newErr>>

\* ------------------------------------------------------------------ Close
CloseBegin(p) ==
    /\ pc[p] = "idle"
    /\ p \notin closed
    /\ closed' = closed \cup {p}
    /\ pc' = [pc EXCEPT ![p] = "c_lock"]
    /\ UNCHANGED <<maxBatchRecords, maxBatchBytes, batch, batchBytes, mu,
                   records, bs, rec, nWrites, tasks, accepted, now,
                   c, newErr>>

\* al.mu.Lock()
CloseLock(p) ==
    /\ pc[p] = "c_lock"
    /\ mu = NoHolder
    /\ mu' = p
    /\ pc' = [pc EXCEPT ![p] = "c_send"]
    /\ UNCHANGED <<maxBatchRecords, maxBatchBytes, batch, batchBytes, records,
                   bs, rec, nWrites, closed, tasks, accepted, now,
                   c, newErr>>

\* Mutant of CloseSend: al.batchBytes is not reset.
CloseSendKeepsBytes(p) ==
    /\ pc[p] = "c_send"
    /\ IF Len(batch) > 0
       THEN /\ batch' = <<>>
            /\ batchBytes' = batchBytes
            /\ tasks' = Append(tasks, NewTask(batch, "Close"))
       ELSE UNCHANGED <<batch, batchBytes, tasks>>
    /\ pc' = [pc EXCEPT ![p] = "c_unlock"]
    /\ UNCHANGED <<maxBatchRecords, maxBatchBytes, mu, records, bs, rec,
                   nWrites, closed, accepted, now,
                   c, newErr>>

\* Mutant of CloseSend: a delivery is started whether or not records are pending.
CloseSendWhenEmpty(p) ==
    /\ pc[p] = "c_send"
    /\ batch' = <<>>
    /\ batchBytes' = 0
    /\ tasks' = Append(tasks, NewTask(batch, "Close"))
    /\ pc' = [pc EXCEPT ![p] = "c_unlock"]
    /\ UNCHANGED <<maxBatchRecords, maxBatchBytes, mu, records, bs, rec,
                   nWrites, closed, accepted, now,
                   c, newErr>>

\* if len(al.batch) > 0 { batch := al.batch; al.batch = {}; al.batchBytes = 0; go sendBatch(batch, ...) }
CloseSend(p) ==
    /\ pc[p] = "c_send"
    /\ IF Len(batch) > 0
       THEN /\ batch' = <<>>
            /\ batchBytes' = 0
            /\ tasks' = Append(tasks, NewTask(batch, "Close"))
       ELSE UNCHANGED <<batch, batchBytes, tasks>>
    /\ pc' = [pc EXCEPT ![p] = "c_unlock"]
    /\ UNCHANGED <<maxBatchRecords, maxBatchBytes, mu, records, bs, rec,
                   nWrites, closed, accepted, now,
                   c, newErr>>

\* Mutant of CloseUnlock: Close returns once every delivery has ended.
CloseUnlockAfterDelivery(p) ==
    /\ pc[p] = "c_unlock"
    /\ \A t \in DOMAIN tasks : tasks[t].pc \in {"done", "error", "expired"}
    /\ mu' = NoHolder
    /\ pc' = [pc EXCEPT ![p] = "idle"]
    /\ UNCHANGED <<maxBatchRecords, maxBatchBytes, batch, batchBytes, records,
                   bs, rec, nWrites, closed, tasks, accepted, now,
                   c, newErr>>

\* al.mu.Unlock(); return nil
CloseUnlock(p) ==
    /\ pc[p] = "c_unlock"
    /\ mu' = NoHolder
    /\ pc' = [pc EXCEPT ![p] = "idle"]
    /\ UNCHANGED <<maxBatchRecords, maxBatchBytes, batch, batchBytes, records,
                   bs, rec, nWrites, closed, tasks, accepted, now,
                   c, newErr>>

\* -------------------------------------------------------------- sendBatch
IsAwsErr(err) == err \in {ErrRequest, ErrService}
Code(err) ==
    IF err = ErrRequest THEN "RequestError"
    ELSE IF err = ErrService THEN "ServiceUnavailableException" ELSE ""

\* Mutants of Classify: every AWS error is retried; nothing is retried.
ClassifyAnyAwsError(err) ==
    IF err = ErrNil THEN "Succeed"
    ELSE IF IsAwsErr(err) THEN "Retry"
    ELSE "Fail"
ClassifyNoRetry(err) ==
    IF err = ErrNil THEN "Succeed" ELSE "Fail"

\* RequestErrorClassifier.Classify
Classify(err) ==
    IF err = ErrNil THEN "Succeed"
    ELSE IF IsAwsErr(err) /\ Code(err) = "RequestError" THEN "Retry"
    ELSE "Fail"

\* retrier.ExponentialBackoff(5, 100*time.Millisecond): n waits, each double
\* the one before, in milliseconds.
backoffRetries == 5
backoffInitial == 100
RECURSIVE ExponentialBackoff(_, _)
ExponentialBackoff(n, amount) ==
    IF n = 0 THEN <<>> ELSE <<amount>> \o ExponentialBackoff(n - 1, 2 * amount)

\* for i, res := range result.RequestResponses { if ErrorCode == "" continue; append batch[i] }
RECURSIVE NewBatchFrom(_, _, _)
NewBatchFrom(b, codes, i) ==
    IF i > Len(codes) THEN <<>>
    ELSE (IF codes[i] THEN <<b[i]>> ELSE <<>>) \o NewBatchFrom(b, codes, i + 1)

\* Mutants of NewBatch: each unprocessed record is put in front of the new
\* batch; the records without an ErrorCode are the ones kept.
RECURSIVE NewBatchPrepending(_, _)
NewBatchPrepending(b, codes) ==
    IF codes = <<>> THEN <<>>
    ELSE LET n == Len(codes)
         IN (IF codes[n] THEN <<b[n]>> ELSE <<>>)
               \o NewBatchPrepending(b, SubSeq(codes, 1, n - 1))
NewBatchOfAccepted(b, codes) ==
    NewBatchFrom(b, [i \in DOMAIN codes |-> ~codes[i]], 1)

NewBatch(b, codes) == NewBatchFrom(b, codes, 1)

\* Mutant of TaskLoop: at the deadline the outstanding records are put back
\* into al.batch.
TaskLoopRequeues(t) ==
    /\ tasks[t].pc = "loop"
    /\ tasks' = [tasks EXCEPT ![t] =
          IF now < @.timeout
          THEN [@ EXCEPT !.pc = "call", !.retries = 0, !.calls = 0, !.slept = <<>>]
          ELSE [@ EXCEPT !.pc = "expired"]]
    /\ IF now < tasks[t].timeout
       THEN UNCHANGED <<batch, batchBytes>>
       ELSE /\ batch' = batch \o tasks[t].batch
            /\ batchBytes' = batchBytes + SumBytes(tasks[t].batch)
    /\ UNCHANGED <<maxBatchRecords, maxBatchBytes, mu, records, pc, bs, rec,
                   nWrites, closed, c, newErr, accepted, now>>

\* Mutant of TaskLoop: the loop does not look at the deadline.
TaskLoopNoDeadline(t) ==
    /\ tasks[t].pc = "loop"
    /\ tasks' = [tasks EXCEPT ![t] =
          [@ EXCEPT !.pc = "call", !.retries = 0, !.calls = 0, !.slept = <<>>]]
    /\ UNCHANGED <<loggerVars, accepted, now>>

\* for time.Now().Before(timeout) { r := retrier.New(...)
TaskLoop(t) ==
    /\ tasks[t].pc = "loop"
    /\ tasks' = [tasks EXCEPT ![t] =
          IF now < @.timeout
          THEN [@ EXCEPT !.pc = "call", !.retries = 0, !.calls = 0, !.slept = <<>>]
          ELSE [@ EXCEPT !.pc = "expired"]]
    /\ UNCHANGED <<loggerVars, accepted, now>>

\* One call of the work function inside r.Run and what follows from its
\* return: fhAPI.PutRecordBatch(&firehose.PutRecordBatchInput{Records: batch})
\* answers o.  Retrier.Run (go-resiliency v1.7.0, the version go.mod requires)
\* classifies o.err: on Succeed or Fail it returns it; on Retry it returns it
\* once retries >= len(backoff), and otherwise sleeps backoff[retries], adds
\* one to retries and calls again (the sleep is time passing: Tick).  With an
\* error sendBatch returns it; with none it stops on FailedPutCount == 0, and
\* otherwise replaces batch by the records whose ErrorCode is set.
TaskPut(t, o) ==
    /\ tasks[t].pc = "call"
    /\ o \in Outputs(tasks[t].batch)
    /\ LET T == tasks[t]
           action == Classify(o.err)
           backoff == ExponentialBackoff(backoffRetries, backoffInitial)
           called == [T EXCEPT !.calls = @ + 1, !.err = o.err,
                        !.want = IF o.err # ErrNil THEN @
                                 ELSE IF o.failed = 0 THEN NoWant
                                 ELSE [set |-> TRUE,
                                       recs |-> RejectedIn(T.batch, o.codes)]]
       IN tasks' = [tasks EXCEPT ![t] =
            IF action = "Succeed"
            THEN IF o.failed = 0
                 THEN [called EXCEPT !.pc = "done", !.retries = 0, !.calls = 0,
                                     !.slept = <<>>]
                 ELSE [called EXCEPT !.pc = "loop", !.retries = 0, !.calls = 0,
                                     !.slept = <<>>,
                                     !.batch = NewBatch(T.batch, o.codes)]
            ELSE IF action = "Retry" /\ T.retries < Len(backoff)
            THEN [called EXCEPT !.slept = Append(@, backoff[T.retries + 1]),
                                !.retries = @ + 1]
            ELSE [called EXCEPT !.pc = "error"]]
    /\ accepted' = [r \in DOMAIN accepted |->
          IF o.err = ErrNil /\ r \in AcceptedIn(tasks[t].batch, o.codes)
          THEN accepted[r] + 1 ELSE accepted[r]]
    /\ UNCHANGED <<loggerVars, now>>

\* ------------------------------------------------------------------ clock
Tick ==
    /\ now < MaxTime
    /\ now' = now + 1
    /\ UNCHANGED <<loggerVars, tasks, accepted>>

Next ==
    \/ \E p \in Callers, n \in RecordSizes : WriteBegin(p, n)
    \/ \E p \in Callers : WriteEncodeError(p)
    \/ \E p \in Callers : WriteReturnError(p)
    \/ \E p \in Callers : WriteLock(p)
    \/ \E p \in Callers : WriteBytes(p)
    \/ \E p \in Callers : WriteAppend(p)
    \/ \E p \in Callers : WriteSend(p)
    \/ \E p \in Callers : WriteUnlock(p)
    \/ \E p \in Callers : CloseBegin(p)
    \/ \E p \in Callers : CloseLock(p)
    \/ \E p \in Callers : CloseSend(p)
    \/ \E p \in Callers : CloseUnlock(p)
    \/ \E t \in DOMAIN tasks : TaskLoop(t)
    \/ \E t \in DOMAIN tasks : \E o \in Outputs(tasks[t].batch) : TaskPut(t, o)
    \/ Tick

Spec == Init /\ [][Next]_vars

\* ---------------------------------------------------------- the three parts
\* Concurrent Write and Close; every delivery is started and left at its start.
NextLogger ==
    \/ \E p \in Callers, n \in RecordSizes : WriteBegin(p, n)
    \/ \E p \in Callers : WriteEncodeError(p)
    \/ \E p \in Callers : WriteReturnError(p)
    \/ \E p \in Callers : WriteLock(p)
    \/ \E p \in Callers : WriteBytes(p)
    \/ \E p \in Callers : WriteAppend(p)
    \/ \E p \in Callers : WriteSend(p)
    \/ \E p \in Callers : WriteUnlock(p)
    \/ \E p \in Callers : CloseBegin(p)
    \/ \E p \in Callers : CloseLock(p)
    \/ \E p \in Callers : CloseSend(p)
    \/ \E p \in Callers : CloseUnlock(p)
    \/ Tick

SpecLogger == Init /\ [][NextLogger]_vars

\* The steps of caller p inside a call of Write or Close.
Proceed(p) ==
    \/ WriteReturnError(p)
    \/ WriteLock(p)
    \/ WriteBytes(p)
    \/ WriteAppend(p)
    \/ WriteSend(p)
    \/ WriteUnlock(p)
    \/ CloseLock(p)
    \/ CloseSend(p)
    \/ CloseUnlock(p)

\* SpecLogger with the scheduler running every goroutine that can run: a
\* caller inside Write or Close takes its next step once it can (at Lock, once
\* the mutex is free).  Nothing is assumed of the deliveries, which take no
\* step here: each is blocked from its start.
SpecLoggerFair ==
    Init /\ [][NextLogger]_vars /\ \A p \in Callers : WF_vars(Proceed(p))

\* New alone: any Config, below, at and above the hard limits, unset and
\* negative; the Logger's fields hold Go's zero values until New sets them.
Names == {"", "x"}
NewConfigMaxRecords ==
    {-1, 0, 1, firehosePutRecordBatchMaxRecords - 1,
     firehosePutRecordBatchMaxRecords, firehosePutRecordBatchMaxRecords + 1}
NewConfigMaxBytes ==
    {-1, 0, 20, firehosePutRecordBatchMaxBytes - 1,
     firehosePutRecordBatchMaxBytes, firehosePutRecordBatchMaxBytes + 1}
Configs ==
    [DBName : Names, Environment : Names, StreamName : Names, Region : Names,
     FirehosePutRecordBatchMaxRecords : NewConfigMaxRecords,
     FirehosePutRecordBatchMaxBytes : NewConfigMaxBytes,
     FirehoseAPI : BOOLEAN]

InitNew ==
    /\ c \in Configs
    /\ newErr = NotCalled
    /\ maxBatchRecords = 0
    /\ maxBatchBytes = 0
    /\ batch = <<>>
    /\ batchBytes = 0
    /\ mu = NoHolder
    /\ records = <<>>
    /\ pc = [p \in Callers |-> "idle"]
    /\ bs = [p \in Callers |-> 0]
    /\ rec = [p \in Callers |-> NoRecord]
    /\ nWrites = 0
    /\ closed = {}
    /\ tasks = <<>>
    /\ accepted = <<>>
    /\ now = 0

NextNew == \E env \in Names : New(env)

SpecNew == InitNew /\ [][NextNew]_vars

\* One sendBatch call: the state after k Writes of one size, a Close that
\* detached them and one more Write, whose record is pending, with the default
\* limits.
InitSend ==
    \E k \in 1..MaxBatch, n \in RecordSizes, p \in Callers :
        /\ c = Config(0, 0)
        /\ newErr = NewError(c, "")
        /\ maxBatchRecords = NewMaxBatchRecords(0)
        /\ maxBatchBytes = NewMaxBatchBytes(0)
        /\ batch = <<k + 1>>
        /\ batchBytes = n
        /\ mu = NoHolder
        /\ records = [i \in 1..(k + 1) |-> n]
        /\ pc = [q \in Callers |-> "idle"]
        /\ bs = [q \in Callers |-> 0]
        /\ rec = [q \in Callers |-> NoRecord]
        /\ nWrites = k + 1
        /\ closed = {p}
        /\ accepted = [i \in 1..(k + 1) |-> 0]
        /\ now = 0
        /\ tasks = <<NewTask([i \in 1..k |-> i], "Close")>>

NextSend ==
    \/ \E t \in DOMAIN tasks : TaskLoop(t)
    \/ \E t \in DOMAIN tasks : \E o \in Outputs(tasks[t].batch) : TaskPut(t, o)
    \/ Tick

SpecSend == InitSend /\ [][NextSend]_vars

\* A step of a sendBatch goroutine.
SendStep ==
    \E t \in DOMAIN tasks :
        TaskLoop(t) \/ \E o \in Outputs(tasks[t].batch) : TaskPut(t, o)

\* SpecSend with time advancing and the goroutine running: every
\* PutRecordBatch call returns and every sleep of the retrier ends.
SpecSendFair ==
    InitSend /\ [][NextSend]_vars /\ WF_vars(SendStep) /\ WF_vars(Tick)

\* The Logger and its deliveries together: SysWrites Writes, one Close, at
\* most one RequestError per r.Run, and no deadline passing.
NextSystem ==
    \/ \E p \in Callers, n \in RecordSizes : nWrites < SysWrites /\ WriteBegin(p, n)
    \/ \E p \in Callers : WriteLock(p)
    \/ \E p \in Callers : WriteBytes(p)
    \/ \E p \in Callers : WriteAppend(p)
    \/ \E p \in Callers : WriteSend(p)
    \/ \E p \in Callers : WriteUnlock(p)
    \/ \E p \in Callers : closed = {} /\ CloseBegin(p)
    \/ \E p \in Callers : CloseLock(p)
    \/ \E p \in Callers : CloseSend(p)
    \/ \E p \in Callers : CloseUnlock(p)
    \/ \E t \in DOMAIN tasks : TaskLoop(t)
    \/ \E t \in DOMAIN tasks : \E o \in Outputs(tasks[t].batch) :
          /\ o.err = ErrRequest => tasks[t].retries = 0
          /\ TaskPut(t, o)

SpecSystem == Init /\ [][NextSystem]_vars

\* ================================================================ properties
Count(s, r) == Cardinality({i \in DOMAIN s : s[i] = r})

\* How many dispatched batches hold record r, counting repeats.
Dispatches(r) ==
    Cardinality({ti \in (DOMAIN tasks) \X (DOMAIN records) :
        ti[2] \in DOMAIN tasks[ti[1]].orig /\ tasks[ti[1]].orig[ti[2]] = r})

\* The records whose Write has returned.
Returned == {r \in DOMAIN records : \A p \in Callers : rec[p] # r}

\* The last delivery started.
LastTask == tasks[Len(tasks)]

\* This step is caller p executing lines 133-140 of Write.
WriteSendStep(p) == pc[p] = "w_send" /\ pc'[p] = "w_unlock"

\* This step starts a delivery of exactly the pending batch and empties the
\* accumulator.
DispatchesPending ==
    /\ Len(tasks') = Len(tasks) + 1
    /\ tasks'[Len(tasks')].orig = batch
    /\ SubSeq(tasks', 1, Len(tasks)) = tasks
    /\ batch' = <<>>
    /\ batchBytes' = 0

\* (C1) Under any interleaving of Write and Close, every record whose Write
\* has returned is in exactly one place: once in the pending batch, or once in
\* exactly one dispatched batch.
C1_RecordInExactlyOnePlace ==
    \A r \in Returned : Count(batch, r) + Dispatches(r) = 1

\* Two batches have been dispatched, a third record is pending, and every
\* Write has returned.
C1_Witness ==
    /\ Len(tasks) = 2
    /\ Len(batch) = 1
    /\ Returned = DOMAIN records
    /\ Len(records) = 3
    /\ \A p \in Callers : pc[p] = "idle"

\* (C2) Whenever no Write or Close holds the lock, batchBytes is the sum of the
\* byte lengths of the pending records (0 when none is pending).
C2_BytesMatchPending ==
    mu = NoHolder => batchBytes = SumBytes(batch)

\* Nobody holds the lock, a Close has dispatched a batch and two records of
\* different sizes have been written since.
C2_Witness ==
    /\ mu = NoHolder
    /\ \E t \in DOMAIN tasks : tasks[t].by = "Close"
    /\ Len(batch) = 2
    /\ batchBytes = 19

\* (C3) A delivery is started only by Close, or by a Write whose append brought
\* the pending count to maxBatchRecords or the pending bytes above
\* 0.9 * maxBatchBytes: while neither threshold is met, nothing is dispatched
\* until Close.
C3_NoDispatchBelowThresholds ==
    [][Len(tasks') > Len(tasks) =>
         \/ \E p \in Callers : pc[p] = "c_send" /\ pc'[p] = "c_unlock"
         \/ \E p \in Callers :
              /\ WriteSendStep(p)
              /\ \/ Len(batch) >= maxBatchRecords
                 \/ 10 * batchBytes > 9 * maxBatchBytes]_vars

\* Three Writes have returned, one record short of no threshold, Close has not
\* been called and nothing has been dispatched.
C3_Witness ==
    /\ tasks = <<>>
    /\ closed = {}
    /\ Len(batch) = 3
    /\ Returned = DOMAIN records
    /\ \A p \in Callers : pc[p] = "idle"

\* (C4) A Write that makes the pending count equal to maxBatchRecords starts
\* exactly one delivery, of exactly the pending records (the one just written
\* last) in append order, and leaves the pending batch empty and batchBytes 0.
C4_CountThresholdDispatch ==
    [][\A p \in Callers :
         (WriteSendStep(p) /\ Len(batch) = maxBatchRecords) =>
            /\ DispatchesPending
            /\ batch[Len(batch)] = rec[p]
            /\ \A i \in DOMAIN batch :
                  batch[i] = Len(records) - Len(batch) + i]_vars

\* A Write has dispatched maxBatchRecords records on the count alone (their
\* bytes are below the byte threshold), and the next Write's record is alone
\* in a fresh batch.
C4_Witness ==
    /\ Len(tasks) = 1
    /\ LastTask.by = "Write"
    /\ Len(LastTask.orig) = maxBatchRecords
    /\ 10 * SumBytes(LastTask.orig) <= 9 * maxBatchBytes
    /\ batch = <<maxBatchRecords + 1>>
    /\ batchBytes = records[maxBatchRecords + 1]
    /\ mu = NoHolder

\* (C5) A Write that leaves the pending bytes strictly above
\* 0.9 * maxBatchBytes dispatches the whole pending batch whatever the count;
\* one that leaves them at or below it, with the count not at maxBatchRecords,
\* dispatches nothing.
C5_ByteThresholdDispatch ==
    [][\A p \in Callers :
         WriteSendStep(p) =>
            /\ 10 * batchBytes > 9 * maxBatchBytes => DispatchesPending
            /\ (10 * batchBytes <= 9 * maxBatchBytes
                /\ Len(batch) # maxBatchRecords) =>
                   UNCHANGED <<tasks, batch, batchBytes>>]_vars

\* A Write dispatched fewer than maxBatchRecords records on their bytes, after
\* the records before the last had sat at exactly 0.9 * maxBatchBytes.
C5_Witness ==
    /\ Len(tasks) = 1
    /\ LastTask.by = "Write"
    /\ Len(LastTask.orig) < maxBatchRecords
    /\ 10 * SumBytes(LastTask.orig) > 9 * maxBatchBytes
    /\ 10 * SumBytes(SubSeq(LastTask.orig, 1, Len(LastTask.orig) - 1))
          = 9 * maxBatchBytes

\* (C6) Every batch handed to a delivery has a total payload size within the
\* hard limit maxBatchBytes.
C6_DispatchedBatchWithinLimit ==
    \A t \in DOMAIN tasks : SumBytes(tasks[t].orig) <= maxBatchBytes

\* This step is delivery t submitting its batch (and handling the answer).
IsPut(t) == tasks[t].pc = "call" /\ tasks'[t] # tasks[t]

Ascending(s) == \A i, j \in DOMAIN s : i < j => s[i] < s[j]

\* (C7) After an answer that rejects some of the submitted records, every
\* submission of that delivery up to its next answer carries exactly the
\* records that answer rejected, in their original relative order, and nothing
\* else; so through every narrowing of a batch.
C7_NextSubmissionIsRejected ==
    [][\A t \in DOMAIN tasks :
         (IsPut(t) /\ tasks[t].want.set) =>
            /\ tasks[t].batch = tasks[t].want.recs
            /\ Ascending(tasks[t].batch)
            /\ Range(tasks[t].batch) \subseteq Range(tasks[t].orig)]_vars

\* Of three records the first and the third were rejected, and the narrowed
\* batch of those two, in that order, has been submitted once (the endpoint
\* answered that submission with a RequestError).
C7_Witness ==
    \E t \in DOMAIN tasks :
        /\ Len(tasks[t].orig) = 3
        /\ tasks[t].want = [set |-> TRUE,
                            recs |-> <<tasks[t].orig[1], tasks[t].orig[3]>>]
        /\ tasks[t].batch = <<tasks[t].orig[1], tasks[t].orig[3]>>
        /\ tasks[t].pc = "call"
        /\ tasks[t].calls = 1
        /\ tasks[t].err = ErrRequest

FatalErrors == Errors \ {ErrRequest}

\* (C9) A submit call that fails with an error other than an AWS RequestError
\* is the last call of its delivery: it is not retried (one call in the round
\* when the round began with it), sendBatch has returned an error, and the
\* delivery submits nothing more.
C9_FatalErrorStopsDelivery ==
    /\ [](\A t \in DOMAIN tasks :
            tasks[t].err \in FatalErrors =>
               /\ tasks[t].pc = "error"
               /\ tasks[t].calls = tasks[t].retries + 1)
    /\ [][\A t \in DOMAIN tasks :
            tasks[t].pc = "error" => tasks'[t] = tasks[t]]_vars

\* The first submit call of a delivery failed with a non-AWS error and the
\* delivery ended with that one call.
C9_Witness ==
    \E t \in DOMAIN tasks :
        /\ tasks[t].err = ErrPlain
        /\ tasks[t].pc = "error"
        /\ tasks[t].calls = 1
        /\ tasks[t].batch = tasks[t].orig

\* The delivery ended because every submit call of one r.Run failed with a
\* RequestError.
Exhausted(t) == tasks[t].pc = "error" /\ tasks[t].err = ErrRequest

\* (C10, as stated) When every submit call fails with a transient error, the
\* inner retry loop makes exactly as many calls as the configured number, 5.
C10_ExactlyFiveAttempts ==
    \A t \in DOMAIN tasks : Exhausted(t) => tasks[t].calls = backoffRetries

\* (C10, amended) When every submit call fails with a transient error, the
\* inner retry loop makes the first call and the 5 configured retries, 6 calls,
\* sleeping 100, 200, 400, 800 and 1600 ms between them (never less than the
\* time before), and then sendBatch returns an error, which ends the delivery.
C10_FirstCallPlusFiveRetries ==
    /\ [](\A t \in DOMAIN tasks :
            /\ Exhausted(t) =>
                  /\ tasks[t].calls = backoffRetries + 1
                  /\ Len(tasks[t].slept) = backoffRetries
            /\ \A i, j \in DOMAIN tasks[t].slept :
                  i < j => tasks[t].slept[i] <= tasks[t].slept[j]
            /\ (tasks[t].pc = "call" /\ tasks[t].err = ErrRequest) =>
                  /\ tasks[t].calls = Len(tasks[t].slept)
                  /\ tasks[t].calls <= backoffRetries)
    /\ [][\A t \in DOMAIN tasks :
            Exhausted(t) => tasks'[t] = tasks[t]]_vars

\* Six submit calls of one r.Run failed with a RequestError and the delivery
\* ended.
C10_Witness ==
    \E t \in DOMAIN tasks :
        /\ Exhausted(t)
        /\ tasks[t].calls = 6
        /\ tasks[t].slept = <<100, 200, 400, 800, 1600>>

\* (C11) Once the deadline of a batch, fixed when it was detached, has passed,
\* its delivery submits nothing more to the endpoint, however many attempts
\* of the inner retry loop remain.
C11_NoSubmissionAfterDeadline ==
    [][\A t \in DOMAIN tasks : IsPut(t) => now < tasks[t].timeout]_vars

\* This step is caller p executing lines 148-154 of Close.
CloseSendStep(p) == pc[p] = "c_send" /\ pc'[p] = "c_unlock"

\* (C12) Close detaches the pending batch in one step taken under the lock:
\* with records pending it starts exactly one delivery, of exactly those
\* records, and leaves the pending batch empty and batchBytes 0; with none
\* pending it starts no delivery.  Either way its remaining steps wait for no
\* delivery: they can be taken whatever state the deliveries are in.
C12_CloseDetachesAtomically ==
    /\ [](\A p \in Callers :
            /\ pc[p] \in {"c_send", "c_unlock"} => mu = p
            /\ pc[p] = "c_send" => ENABLED CloseSend(p)
            /\ pc[p] = "c_unlock" => ENABLED CloseUnlock(p))
    /\ [][\A p \in Callers :
            CloseSendStep(p) =>
               IF Len(batch) > 0
               THEN /\ DispatchesPending
                    /\ tasks'[Len(tasks')].by = "Close"
                    /\ tasks'[Len(tasks')].pc = "loop"
               ELSE UNCHANGED <<tasks, batch, batchBytes>>]_vars

\* Both callers have called Close and returned: one detached the two pending
\* records into a delivery that has not taken a step, the other found nothing
\* pending and started none.
C12_Witness ==
    /\ closed = Callers
    /\ \A p \in Callers : pc[p] = "idle"
    /\ Len(tasks) = 1
    /\ LastTask.by = "Close"
    /\ Len(LastTask.orig) = 2
    /\ LastTask.pc = "loop"
    /\ batch = <<>>
    /\ batchBytes = 0

\* (C13) After Close has returned the Logger accepts no more records: a Write
\* made by a caller whose Close has returned appends nothing to the pending
\* batch and dispatches nothing.
C13_NoWriteAfterClose ==
    [][\A p \in closed :
         /\ ~(pc[p] = "w_append" /\ pc'[p] = "w_send")
         /\ WriteSendStep(p) => Len(tasks') = Len(tasks)]_vars

\* This step is caller p's in a Write that fails to encode its payload.
EncodeErrorStep(p) ==
    \/ pc[p] = "idle" /\ pc'[p] = "w_err"
    \/ pc[p] = "w_err" /\ pc'[p] = "idle"

\* (C14) A Write that fails to encode its payload returns 0 and the error and
\* leaves the accumulator as it was: it never takes the lock, appends no
\* record, adds nothing to batchBytes and starts no delivery.
C14_EncodeErrorLeavesAccumulator ==
    /\ [](\A p \in Callers :
            pc[p] = "w_err" =>
               /\ WriteReturns(p).n = 0
               /\ WriteReturns(p).err # ErrNil
               /\ mu # p
               /\ rec[p] = NoRecord)
    /\ [][\A p \in Callers :
            /\ EncodeErrorStep(p) =>
                  UNCHANGED <<batch, batchBytes, records, tasks, mu>>
            /\ pc[p] = "w_err" => pc'[p] \in {"w_err", "idle"}]_vars

\* Two Writes were made and have returned; one failed to encode, and the
\* pending batch holds the other's record alone, with its bytes.
C14_Witness ==
    /\ nWrites = 2
    /\ \A p \in Callers : pc[p] = "idle"
    /\ Len(records) = 1
    /\ batch = <<1>>
    /\ batchBytes = records[1]
    /\ tasks = <<>>

\* (C15) New rejects no Config for its FirehosePutRecordBatchMaxRecords or
\* FirehosePutRecordBatchMaxBytes: it returns an error only for the names, the
\* environment or the API, and when those are in order it returns none
\* whatever the two values.  The Logger it returns has maxBatchRecords the
\* smaller of the configured value and 500, and maxBatchBytes the smaller of
\* the configured value and 4000000, the hard limit standing for a value of 0.
C15_NewClampsLimits ==
    newErr # NotCalled =>
        LET v == c.FirehosePutRecordBatchMaxRecords
            w == c.FirehosePutRecordBatchMaxBytes
        IN /\ newErr = ErrNil =>
                /\ maxBatchRecords =
                      (IF v = 0 \/ v > 500 THEN 500 ELSE v)
                /\ maxBatchBytes =
                      (IF w = 0 \/ w > 4000000 THEN 4000000 ELSE w)
           /\ newErr \in {ErrNil, ErrBothNames, ErrNoName, ErrNoEnv, ErrNoAPI}
           /\ newErr = ErrBothNames => c.DBName # "" /\ c.StreamName # ""
           /\ newErr = ErrNoName => c.DBName = "" /\ c.StreamName = ""
           /\ newErr = ErrNoEnv => c.Environment = ""
           /\ newErr = ErrNoAPI => ~c.FirehoseAPI /\ c.Region = ""
           /\ ((c.DBName = "") # (c.StreamName = "")
               /\ c.Environment # ""
               /\ (c.FirehoseAPI \/ c.Region # "")) => newErr = ErrNil

\* New accepted a Config asking for one more than each hard limit and returned
\* a Logger with the hard limits.
C15_Witness ==
    /\ newErr = ErrNil
    /\ c.FirehosePutRecordBatchMaxRecords = 501
    /\ c.FirehosePutRecordBatchMaxBytes = 4000001
    /\ maxBatchRecords = 500
    /\ maxBatchBytes = 4000000

\* (C16) A dispatched batch is the pending batch as it was when it was
\* detached: a delivery starts with exactly the records pending at that step,
\* what it submits is always among them, and a Write that appends a record
\* while deliveries are in flight changes none of them.
C16_DispatchedBatchIsSnapshot ==
    /\ [](\A t \in DOMAIN tasks :
            Range(tasks[t].batch) \subseteq Range(tasks[t].orig))
    /\ [][/\ \A t \in DOMAIN tasks' \ DOMAIN tasks :
               /\ tasks'[t].orig = batch
               /\ tasks'[t].batch = batch
          /\ \A t \in DOMAIN tasks :
               /\ t \in DOMAIN tasks'
               /\ tasks'[t].orig = tasks[t].orig
               /\ Len(records') > Len(records) =>
                     /\ tasks'[t] = tasks[t]
                     /\ Len(records') \notin Range(tasks'[t].batch)]_vars

\* Close detached the first record into a delivery that has submitted it once
\* and is retrying, and a second record has been written since: it is pending
\* and the delivery still holds the first alone.
C16_Witness ==
    /\ Len(tasks) = 1
    /\ LastTask.by = "Close"
    /\ LastTask.orig = <<1>>
    /\ LastTask.batch = <<1>>
    /\ LastTask.pc = "call"
    /\ LastTask.calls = 1
    /\ Len(records) = 2
    /\ batch = <<2>>
    /\ \A p \in Callers : pc[p] = "idle"

\* (C17) The lock is held only across in-memory steps: whoever holds it is
\* inside Write or Close and can take its next step at once, whatever the
\* deliveries are doing, and no delivery step takes or frees it.  So every call
\* of Write or Close returns, even with every delivery blocked for ever.
C17_LockNeverHeldAcrossDelivery ==
    /\ [](\A p \in Callers :
            mu = p =>
               /\ pc[p] \in {"w_bytes", "w_append", "w_send", "w_unlock",
                             "c_send", "c_unlock"}
               /\ ENABLED Proceed(p))
    /\ [][(\E t \in DOMAIN tasks : tasks'[t] # tasks[t]) => mu' = mu]_vars
    /\ \A p \in Callers : [](pc[p] # "idle" => <>(pc[p] = "idle"))

\* Write and Close have each started a delivery, neither delivery has taken a
\* step, and every call has returned with the lock free.
C17_Witness ==
    /\ \E t \in DOMAIN tasks : tasks[t].by = "Write"
    /\ \E t \in DOMAIN tasks : tasks[t].by = "Close"
    /\ \A t \in DOMAIN tasks : tasks[t].pc = "loop" /\ tasks[t].calls = 0
    /\ \A p \in Callers : pc[p] = "idle"
    /\ mu = NoHolder
    /\ nWrites = MaxWrites

\* The delivery has ended.
Ended(t) == tasks[t].pc \in {"done", "error", "expired"}

\* (C18) With time advancing and every submit call returning, every delivery
\* ends, and stays ended, in one of three ways: delivered, its last answer
\* reporting no rejection; failed, on an error that is not transient or on the
\* last retry of a transient one; or timed out, the deadline having passed.
C18_DeliveryTerminates ==
    /\ <>(\A t \in DOMAIN tasks : Ended(t))
    /\ [](\A t \in DOMAIN tasks :
            /\ tasks[t].pc = "done" =>
                  tasks[t].err = ErrNil /\ tasks[t].want = NoWant
            /\ tasks[t].pc = "error" =>
                  \/ tasks[t].err \in FatalErrors
                  \/ /\ tasks[t].err = ErrRequest
                     /\ tasks[t].calls = backoffRetries + 1
            /\ tasks[t].pc = "expired" => now >= tasks[t].timeout)
    /\ [][\A t \in DOMAIN tasks : Ended(t) => tasks'[t] = tasks[t]]_vars

\* The endpoint rejected all three records of a batch whenever they were
\* submitted, and the delivery ended at its deadline with all three
\* outstanding.
C18_Witness ==
    \E t \in DOMAIN tasks :
        /\ tasks[t].pc = "expired"
        /\ Len(tasks[t].orig) = 3
        /\ tasks[t].batch = tasks[t].orig
        /\ tasks[t].want = [set |-> TRUE, recs |-> tasks[t].orig]
        /\ \A r \in DOMAIN accepted : accepted[r] = 0

\* This step is one of a sendBatch goroutine.
DeliveryStep == \E t \in DOMAIN tasks : tasks'[t] # tasks[t]

\* (C19) A delivery never touches the accumulator: none of its steps, to
\* whichever end, changes the pending batch, batchBytes, the lock or the
\* limits, and no record it was given is ever pending again, so what is
\* outstanding when it ends is dropped.
C19_DeliveryLeavesAccumulator ==
    /\ [][DeliveryStep =>
            UNCHANGED <<batch, batchBytes, mu, maxBatchRecords,
                        maxBatchBytes, records>>]_vars
    /\ [](\A t \in DOMAIN tasks :
            /\ Range(tasks[t].orig) \cap Range(batch) = {}
            /\ batchBytes = SumBytes(batch))

\* A delivery of three records ended at its deadline with two of them
\* outstanding, and the accumulator still holds the one record written after
\* the detachment, with its bytes.
C19_Witness ==
    \E t \in DOMAIN tasks :
        /\ tasks[t].pc = "expired"
        /\ Len(tasks[t].orig) = 3
        /\ Len(tasks[t].batch) = 2
        /\ batch = <<4>>
        /\ batchBytes = records[4]

\* (C20) When a delivery stops because an answer reported no rejected record,
\* every record of the batch as detached has been reported accepted by some
\* answer of that delivery, whatever the endpoint answered (a result list
\* shorter than the request, or one at odds with the count, included).
C20_DeliveredMeansAllAccepted ==
    \A t \in DOMAIN tasks :
        tasks[t].pc = "done" =>
            \A i \in DOMAIN tasks[t].orig : accepted[tasks[t].orig[i]] >= 1
====
